---- MODULE Spec2Model ----
(***************************************************************************)
(* SalmonFlow: flow-zone classification, gauge projection and the weekly   *)
(* trend aggregator, modelled from the TypeScript sources.                 *)
(*                                                                         *)
(* Numbers.  CFS readings are integers (the home screen stores             *)
(* Math.round(parseFloat(value))).  Angles are kept exactly, as integer    *)
(* multiples of 1/UnitsPerDegree of a degree, so that clamped/MAX_CFS*270  *)
(* and clamped/MAX_CFS*180 are computed without loss for every integer     *)
(* reading.  The semicircle gauge computes Math.PI*(1-ratio) in radians;   *)
(* it is kept in the same unit with Math.PI standing for 180 degrees.      *)
(* The cos/sin end points of needles and arcs are not modelled: every      *)
(* property below is about the angles they are computed from.              *)
(***************************************************************************)
EXTENDS Integers, Sequences, FiniteSets, TLC

VARIABLES
    gaugeStyle,   \* which revision of the FlowGauge component is mounted
    currentCFS,   \* the currentCFS prop of the mounted gauge
    prevCFS,      \* the prop of the previous render
    needle,       \* the angle the needle is animated to
    prevNeedle,   \* the angle the animation starts from (previous target)
    status,       \* the status label shown under the gauge ("" when none)
    zoneArcs,     \* the coloured zone arcs drawn, in table order
    weekStage,    \* how far the weekly screen's memoised values are computed
    weekData,     \* generateWeekData(): the seven DayData entries
    stats,        \* calculateStats(weekData)
    parts,        \* generateInsight: the clauses pushed
    insight,      \* generateInsight(stats): the clauses joined
    DEV,                \* the __DEV__ flag of the build
    customerInfo,       \* SubscriptionProvider: the CustomerInfo held (NullInfo when null)
    currentOffering,    \* SubscriptionProvider: the packages of the current offering
    isInitialized,      \* SubscriptionProvider state
    isLoading,          \* SubscriptionProvider state
    error,              \* SubscriptionProvider state ("null" when null)
    initPending,        \* initialize() of the mount effect has not settled
    pendingOp,          \* the purchase or restore call awaiting RevenueCat
    selectedPackage,    \* HardPaywall state
    isProcessing,       \* HardPaywall state
    logoTapCount,       \* HardPaywall state
    showReviewerEscape, \* HardPaywall state
    resetTimers,        \* HardPaywall: setTimeout callbacks scheduled by logo taps
    paywallDismissed,   \* AppContent state
    screen,             \* what AppContent renders: "paywall" or "tabs"
    sandboxSeen,        \* history: some CustomerInfo held so far was a sandbox one
    showPaywall,        \* useProFeature state
    alertOpen,          \* useProFeature: the 'Pro Feature' alert is on screen
    guardReturn,        \* what the last guardAction call returned ("none" before any)
    actionExecuted,     \* whether the last guardAction call ran its action
    refreshPending,     \* refreshCustomerInfo calls awaiting RevenueCat
    purchaseReturn,     \* what the last settled purchase() call returned ("none" before any)
    primeAlertEnabled,  \* SettingsScreen state
    settingsShowPaywall, \* SettingsScreen state showPaywall
    fetchScreen,        \* which data screen is mounted: "status", "trends" or "forecast"
    fetchStarted,       \* how many fetches the screen has started (the mount fetch is 1)
    fetchPending,       \* the fetches still awaiting their responses
    screenData,         \* the screen's data state
    refreshing,         \* the screen's refreshing state
    writtenBy           \* history: the fetch whose setData call was the last one

gaugeVars == <<gaugeStyle, currentCFS, prevCFS, needle, prevNeedle, status, zoneArcs>>

weekVars == <<weekStage, weekData, stats, parts, insight>>

subVars == <<DEV, customerInfo, currentOffering, isInitialized, isLoading, error,
             initPending, pendingOp, sandboxSeen, refreshPending, purchaseReturn>>

paywallVars == <<selectedPackage, isProcessing, logoTapCount, showReviewerEscape,
                 resetTimers>>

layoutVars == <<paywallDismissed, screen>>

hookVars == <<showPaywall, alertOpen, guardReturn, actionExecuted>>

settingsVars == <<primeAlertEnabled, settingsShowPaywall>>

payVars == <<subVars, paywallVars, layoutVars, hookVars, settingsVars>>

fetchVars == <<fetchScreen, fetchStarted, fetchPending, screenData, refreshing, writtenBy>>

vars == <<gaugeVars, weekVars, payVars, fetchVars>>

-----------------------------------------------------------------------------
(* Bounds of the model: the readings offered to the gauge.                 *)

CfsStep == 100
MaxSteps == 22
NegSteps == 2

\* The longest data array handed to calculateStats directly.
MaxDays == 8

\* The most logo-tap reset timers pending at once on the paywall.
MaxTapTimers == 5

\* The most refreshCustomerInfo calls in flight at once.
MaxRefreshCalls == 1

\* The most fetches a data screen starts: the mount fetch and the refreshes.
MaxFetches == 3

-----------------------------------------------------------------------------
(* Configuration constants of the sources.                                 *)

MAX_CFS == 2000

Min(a, b) == IF a < b THEN a ELSE b
Max(a, b) == IF a > b THEN a ELSE b

\* Angles are integers in units of 1/UnitsPerDegree degree.
UnitsPerDegree == MAX_CFS \div 10
Deg(d) == d * UnitsPerDegree

\* FlowGauge.tsx: the zone table of the 270-degree gauge (and of the
\* semicircle gauge, which has the same table).
ZONES_gap ==
    << [label |-> "LOW", min |-> 0, max |-> 350],
       [label |-> "PRIME", min |-> 350, max |-> 700],
       [label |-> "CAUTION", min |-> 750, max |-> 1200],
       [label |-> "BLOWN OUT", min |-> 1200, max |-> MAX_CFS] >>

ZONES ==
    << [label |-> "LOW", min |-> 0, max |-> 350],
       [label |-> "PRIME", min |-> 350, max |-> 750],
       [label |-> "CAUTION", min |-> 750, max |-> 1200],
       [label |-> "BLOWN OUT", min |-> 1200, max |-> MAX_CFS] >>

\* Paywall.tsx: the zone table of the paywall's demo gauge (upper bounds only).
PaywallZONES ==
    << [label |-> "LOW", max |-> 350],
       [label |-> "PRIME", max |-> 750],
       [label |-> "CAUTION", max |-> 1200],
       [label |-> "BLOWN", max |-> MAX_CFS] >>

-----------------------------------------------------------------------------
(* Zone classifiers.                                                       *)

\* The zones of the table that the scan's test accepts for cfs.
MatchingZones(cfs) ==
    { i \in 1..Len(ZONES) : cfs >= ZONES[i].min /\ cfs < ZONES[i].max }

getStatus_inclusiveMax(cfs) ==
    LET hits == { i \in 1..Len(ZONES) : cfs >= ZONES[i].min /\ cfs <= ZONES[i].max }
    IN  IF hits # {}
        THEN ZONES[CHOOSE i \in hits : \A j \in hits : i <= j].label
        ELSE ZONES[Len(ZONES)].label

\* FlowGauge.tsx getStatus: first zone of the table with min <= cfs < max,
\* the last zone when the scan finds none.
getStatus(cfs) ==
    LET hits == MatchingZones(cfs)
    IN  IF hits # {}
        THEN ZONES[CHOOSE i \in hits : \A j \in hits : i <= j].label
        ELSE ZONES[Len(ZONES)].label

\* The semicircle gauge's getStatus: a chain of upper-bound tests.
semiGetStatus(cfs) ==
    IF cfs < 350 THEN "LOW"
    ELSE IF cfs < 750 THEN "PRIME"
    ELSE IF cfs < 1200 THEN "CAUTION"
    ELSE "BLOWN OUT"

\* The PRD's getFlowStatus: four guarded returns; "" stands for the
\* undefined a call returns when no guard holds (no integer reaches it).
getFlowStatus(cfs) ==
    IF cfs < 350 THEN "LOW"
    ELSE IF cfs >= 350 /\ cfs < 750 THEN "PRIME"
    ELSE IF cfs >= 750 /\ cfs < 1200 THEN "CAUTION"
    ELSE IF cfs >= 1200 THEN "BLOWN OUT"
    ELSE ""

-----------------------------------------------------------------------------
(* Gauge projections.                                                      *)

cfsToAngle_halfSweep(cfs) ==
    LET clampedCfs == Min(Max(cfs, 0), MAX_CFS)
    IN  Deg(-135) + (clampedCfs * Deg(180)) \div MAX_CFS

cfsToAngle_unclamped(cfs) ==
    Deg(-135) + (cfs * Deg(270)) \div MAX_CFS

\* FlowGauge.tsx cfsToAngle: -135 + clamp(cfs)/MAX_CFS * 270.
cfsToAngle(cfs) ==
    LET clampedCfs == Min(Max(cfs, 0), MAX_CFS)
    IN  Deg(-135) + (clampedCfs * Deg(270)) \div MAX_CFS

\* Paywall.tsx valueToDegrees: clamp(val)/MAX_CFS * 180.
valueToDegrees(val) ==
    LET clamped == Min(Max(val, 0), MAX_CFS)
    IN  (clamped * Deg(180)) \div MAX_CFS

\* Semicircle gauge, getNeedlePosition: angle = PI * (1 - clamp(cfs)/MAX_CFS).
getNeedlePosition(cfs) ==
    LET clampedCfs == Min(Max(cfs, 0), MAX_CFS)
    IN  Deg(180) - (clampedCfs * Deg(180)) \div MAX_CFS

\* The PRD's calculateNeedleAngle: min(180, max(0, cfs/maxCFS*180)).
calculateNeedleAngle(cfs) ==
    LET angle == (cfs * Deg(180)) \div MAX_CFS
    IN  Min(Deg(180), Max(Deg(0), angle))

-----------------------------------------------------------------------------
(* Zone arcs.                                                              *)

FlowGaugeZoneArcs_halfSweep ==
    [ i \in 1..Len(ZONES) |->
        [ startAngle |-> Deg(-90) + (ZONES[i].min * Deg(180)) \div MAX_CFS,
          endAngle   |-> Deg(-90) + (ZONES[i].max * Deg(180)) \div MAX_CFS ] ]

\* FlowGauge.tsx, ZONES.map: start and end computed inline from zone.min/max.
FlowGaugeZoneArcs ==
    [ i \in 1..Len(ZONES) |->
        [ startAngle |-> Deg(-135) + (ZONES[i].min * Deg(270)) \div MAX_CFS,
          endAngle   |-> Deg(-135) + (ZONES[i].max * Deg(270)) \div MAX_CFS ] ]

\* Semicircle gauge, createArcPath(zone.min, zone.max):
\* angle = PI * (1 - cfs/MAX_CFS), no clamping.
createArcPath(startCfs, endCfs) ==
    [ startAngle |-> Deg(180) - (startCfs * Deg(180)) \div MAX_CFS,
      endAngle   |-> Deg(180) - (endCfs * Deg(180)) \div MAX_CFS ]

SemiGaugeZoneArcs ==
    [ i \in 1..Len(ZONES) |-> createArcPath(ZONES[i].min, ZONES[i].max) ]

\* Paywall.tsx, ZONES.map with the running startCfs: each arc starts where
\* the previous zone's max was projected.
PaywallGaugeZoneArcs ==
    [ i \in 1..Len(PaywallZONES) |->
        LET startCfs == IF i = 1 THEN 0 ELSE PaywallZONES[i - 1].max
        IN  [ startAngle |-> valueToDegrees(startCfs),
              endAngle   |-> valueToDegrees(PaywallZONES[i].max) ] ]

-----------------------------------------------------------------------------
(* The gauge component: one revision is mounted and re-rendered whenever   *)
(* its currentCFS prop changes.                                            *)

GaugeStyles == {"sweep270", "semi180", "paywall180", "prd180"}

BoundaryReadings ==
    { b + d : b \in {0, 350, 750, 1200, MAX_CFS}, d \in {-1, 0, 1} }

Readings ==
    { k * CfsStep : k \in (0 - NegSteps)..MaxSteps } \cup BoundaryReadings

\* State after the first render with the screens' initial currentCFS of 0.
GaugeInit ==
    /\ gaugeStyle \in GaugeStyles
    /\ currentCFS = 0
    /\ prevCFS = 0
    /\ needle = CASE gaugeStyle = "sweep270" -> cfsToAngle(0)
                  [] gaugeStyle = "semi180" -> getNeedlePosition(0)
                  [] gaugeStyle = "paywall180" -> valueToDegrees(0)
                  [] OTHER -> calculateNeedleAngle(0)
    /\ prevNeedle = CASE gaugeStyle = "sweep270" -> Deg(-135)
                      [] gaugeStyle = "semi180" -> Deg(180)
                      [] OTHER -> Deg(0)
    /\ status = CASE gaugeStyle = "sweep270" -> getStatus(0)
                  [] gaugeStyle = "semi180" -> semiGetStatus(0)
                  [] gaugeStyle = "paywall180" -> ""
                  [] OTHER -> getFlowStatus(0)
    /\ zoneArcs = CASE gaugeStyle = "sweep270" -> FlowGaugeZoneArcs
                    [] gaugeStyle = "semi180" -> SemiGaugeZoneArcs
                    [] gaugeStyle = "paywall180" -> PaywallGaugeZoneArcs
                    [] OTHER -> << >>

\* FlowGauge.tsx FlowGauge: render with a new prop.
FlowGaugeRender(c) ==
    /\ gaugeStyle = "sweep270"
    /\ currentCFS' = c
    /\ prevCFS' = currentCFS
    /\ needle' = cfsToAngle(c)
    /\ prevNeedle' = needle
    /\ status' = getStatus(c)
    /\ zoneArcs' = FlowGaugeZoneArcs
    /\ UNCHANGED gaugeStyle
    /\ UNCHANGED weekVars
    /\ UNCHANGED <<payVars, fetchVars>>

\* The semicircle revision of FlowGauge: render with a new prop.
SemiGaugeRender(c) ==
    /\ gaugeStyle = "semi180"
    /\ currentCFS' = c
    /\ prevCFS' = currentCFS
    /\ needle' = getNeedlePosition(c)
    /\ prevNeedle' = needle
    /\ status' = semiGetStatus(c)
    /\ zoneArcs' = SemiGaugeZoneArcs
    /\ UNCHANGED gaugeStyle
    /\ UNCHANGED weekVars
    /\ UNCHANGED <<payVars, fetchVars>>

\* Paywall.tsx FlowGauge: render with a new prop (no status label).
PaywallGaugeRender(c) ==
    /\ gaugeStyle = "paywall180"
    /\ currentCFS' = c
    /\ prevCFS' = currentCFS
    /\ needle' = valueToDegrees(c)
    /\ prevNeedle' = needle
    /\ status' = ""
    /\ zoneArcs' = PaywallGaugeZoneArcs
    /\ UNCHANGED gaugeStyle
    /\ UNCHANGED weekVars
    /\ UNCHANGED <<payVars, fetchVars>>

\* The PRD's data logic applied to a new reading.
PrdGaugeRender(c) ==
    /\ gaugeStyle = "prd180"
    /\ currentCFS' = c
    /\ prevCFS' = currentCFS
    /\ needle' = calculateNeedleAngle(c)
    /\ prevNeedle' = needle
    /\ status' = getFlowStatus(c)
    /\ zoneArcs' = << >>
    /\ UNCHANGED gaugeStyle
    /\ UNCHANGED weekVars
    /\ UNCHANGED <<payVars, fetchVars>>


-----------------------------------------------------------------------------
(* The weekly screen: zone of a day, week statistics, insight sentence.    *)
(*                                                                         *)
(* JavaScript numbers that may be NaN or infinite are records              *)
(* [kind, val]; the ratios are computed exactly (trendDiff/firstHalfAvg    *)
(* is (s2-s1)/s1, the two divisions by 3 cancelling), Math.round rounds    *)
(* halves towards +Infinity.                                               *)

PRIME_ZONE_MIN == 350
PRIME_ZONE_MAX == 750
CAUTION_ZONE_MAX == 1200

dayNames == <<"Sunday", "Monday", "Tuesday", "Wednesday", "Thursday", "Friday", "Saturday">>

\* settings.tsx generateWeekData: the sample data shipped with the screen.
mockCFS == <<420, 385, 520, 745, 680, 542, 510>>

\* settings.tsx getZone.
getZone(cfs) ==
    IF cfs < PRIME_ZONE_MIN THEN "low"
    ELSE IF cfs <= PRIME_ZONE_MAX THEN "prime"
    ELSE IF cfs <= CAUTION_ZONE_MAX THEN "caution"
    ELSE "blown"

\* trends.tsx: the days-in-prime filter of the trends screen.
trendsDaysInPrime(dailyData) ==
    Cardinality({ i \in 1..Len(dailyData) :
                    dailyData[i].cfs >= PRIME_ZONE_MIN /\ dailyData[i].cfs <= PRIME_ZONE_MAX })

Finite(n) == [kind |-> "finite", val |-> n]
NaN == [kind |-> "NaN", val |-> 0]
PosInfinity == [kind |-> "Infinity", val |-> 0]
NegInfinity == [kind |-> "-Infinity", val |-> 0]

\* Math.round(n/d) for d > 0: floor(n/d + 1/2).
MathRound(n, d) == (2 * n + d) \div (2 * d)

\* Math.round((n/d) * 100) with JavaScript's division by zero.
RoundPercent(n, d) ==
    IF d = 0
    THEN (IF n = 0 THEN NaN ELSE IF n > 0 THEN PosInfinity ELSE NegInfinity)
    ELSE IF d > 0 THEN Finite(MathRound(n * 100, d))
    ELSE Finite(MathRound((0 - n) * 100, 0 - d))

\* x > n and x < n for a JavaScript number x and an integer n.
JsGreater(x, n) == (x.kind = "finite" /\ x.val > n) \/ x.kind = "Infinity"
JsLess(x, n) == (x.kind = "finite" /\ x.val < n) \/ x.kind = "-Infinity"

\* Math.abs.
MathAbs(x) ==
    IF x.kind = "finite" THEN Finite(IF x.val < 0 THEN 0 - x.val ELSE x.val)
    ELSE IF x.kind = "NaN" THEN NaN
    ELSE PosInfinity

RECURSIVE SumSeq(_)
SumSeq(s) == IF s = << >> THEN 0 ELSE Head(s) + SumSeq(Tail(s))

\* Array.prototype.slice(0, 3) and slice(-3).
SliceFirst3(s) == SubSeq(s, 1, Min(3, Len(s)))
SliceLast3(s) == SubSeq(s, Max(1, Len(s) - 2), Len(s))

FindDayName_last(data, v) ==
    LET hits == { i \in 1..Len(data) : data[i].cfs = v }
    IN  IF hits = {} THEN ""
        ELSE data[CHOOSE i \in hits : \A j \in hits : i >= j].dayName

\* data.find(d => d.cfs === v)?.dayName || ''
FindDayName(data, v) ==
    LET hits == { i \in 1..Len(data) : data[i].cfs = v }
    IN  IF hits = {} THEN ""
        ELSE data[CHOOSE i \in hits : \A j \in hits : i <= j].dayName

CountZone(data, z) == Cardinality({ i \in 1..Len(data) : data[i].zone = z })

\* settings.tsx generateWeekData with the sample values mock and the
\* weekday today of new Date(): entry j is the day 7 - j days before today.
generateWeekData(mock, today) ==
    [ j \in 1..7 |->
        [ dayName |-> dayNames[((today + j) % 7) + 1],
          cfs     |-> mock[j],
          zone    |-> getZone(mock[j]) ] ]

avgFlowOf_truncated(cfsValues) == SumSeq(cfsValues) \div Len(cfsValues)

\* calculateStats: Math.round(sum / cfsValues.length).
avgFlowOf(cfsValues) == MathRound(SumSeq(cfsValues), Len(cfsValues))

volatilityOf_inclusive(flowRange) ==
    IF flowRange >= 400 THEN "volatile"
    ELSE IF flowRange >= 200 THEN "moderate"
    ELSE "stable"

\* calculateStats: the volatility bucket of a flow range.
volatilityOf(flowRange) ==
    IF flowRange > 400 THEN "volatile"
    ELSE IF flowRange > 200 THEN "moderate"
    ELSE "stable"

\* settings.tsx calculateStats, for a non-empty data array.
calculateStats(data) ==
    LET cfsValues == [ i \in 1..Len(data) |-> data[i].cfs ]
        avgFlow == avgFlowOf(cfsValues)
        peakFlow == CHOOSE v \in { cfsValues[i] : i \in 1..Len(cfsValues) } :
                        \A i \in 1..Len(cfsValues) : cfsValues[i] <= v
        lowestFlow == CHOOSE v \in { cfsValues[i] : i \in 1..Len(cfsValues) } :
                        \A i \in 1..Len(cfsValues) : cfsValues[i] >= v
        flowRange == peakFlow - lowestFlow
        daysInPrime == CountZone(data, "prime")
        volatility == volatilityOf(flowRange)
        firstHalfSum == SumSeq(SliceFirst3(cfsValues))
        secondHalfSum == SumSeq(SliceLast3(cfsValues))
        weekTrendPercent == RoundPercent(secondHalfSum - firstHalfSum, firstHalfSum)
        weekTrend == IF JsGreater(weekTrendPercent, 10) THEN "rising"
                     ELSE IF JsLess(weekTrendPercent, -10) THEN "falling"
                     ELSE "stable"
    IN  [ avgFlow |-> avgFlow,
          peakFlow |-> peakFlow,
          peakDay |-> FindDayName(data, peakFlow),
          lowestFlow |-> lowestFlow,
          lowestDay |-> FindDayName(data, lowestFlow),
          daysInPrime |-> daysInPrime,
          daysInLow |-> CountZone(data, "low"),
          daysInCaution |-> CountZone(data, "caution"),
          flowRange |-> flowRange,
          volatility |-> volatility,
          weekTrend |-> weekTrend,
          weekTrendPercent |-> MathAbs(weekTrendPercent),
          primePercentage |-> MathRound(daysInPrime * 100, 7) ]

\* `${x}` of a JavaScript number.
NumberText(x) ==
    IF x.kind = "finite" THEN ToString(x.val) ELSE x.kind

\* settings.tsx generateInsight; the dash of the "Tough week" template is
\* written "-".
primeClause_alwaysPlural(daysInPrime) ==
    IF daysInPrime >= 5
    THEN "Excellent week with " \o ToString(daysInPrime) \o " days in the prime zone."
    ELSE IF daysInPrime >= 3
    THEN "Good week with " \o ToString(daysInPrime) \o " days in prime fishing conditions."
    ELSE IF daysInPrime > 0
    THEN "Challenging week with only " \o ToString(daysInPrime) \o " days in prime."
    ELSE "Tough week-no days in the prime zone."

\* generateInsight: the prime-zone clause.
primeClause(daysInPrime) ==
    IF daysInPrime >= 5
    THEN "Excellent week with " \o ToString(daysInPrime) \o " days in the prime zone."
    ELSE IF daysInPrime >= 3
    THEN "Good week with " \o ToString(daysInPrime) \o " days in prime fishing conditions."
    ELSE IF daysInPrime > 0
    THEN "Challenging week with only " \o ToString(daysInPrime) \o " day"
             \o (IF daysInPrime > 1 THEN "s" ELSE "") \o " in prime."
    ELSE "Tough week-no days in the prime zone."

\* generateInsight: the clauses pushed onto parts, in order.
insightParts(st) ==
    LET prime == primeClause(st.daysInPrime)
        trend ==
            IF st.weekTrend = "rising"
            THEN << "Flow rising " \o NumberText(st.weekTrendPercent) \o "% toward end of week." >>
            ELSE IF st.weekTrend = "falling"
            THEN << "Flow dropping " \o NumberText(st.weekTrendPercent) \o "% into the weekend." >>
            ELSE << >>
        peak == "Peak of " \o ToString(st.peakFlow) \o " CFS on " \o st.peakDay \o "."
    IN  << prime >> \o trend \o << peak >>

\* parts.join(' ')
RECURSIVE JoinSpace(_)
JoinSpace(ps) ==
    IF ps = << >> THEN ""
    ELSE IF Len(ps) = 1 THEN ps[1]
    ELSE ps[1] \o " " \o JoinSpace(Tail(ps))

generateInsight(st) == JoinSpace(insightParts(st))

\* The sample readings offered to the weekly screen: the shipped sample and
\* every week drawn from one family of readings.
ZoneSamples == {350, 750, 1200, 1201}
TrendSamples == {179, 200, 220, 221}
RangeSamples == {100, 300, 500, 501}
ZeroSamples == {0, 100}
MockFamilies == {ZoneSamples, TrendSamples, RangeSamples, ZeroSamples}
ExampleWeeks ==
    { mockCFS,
      <<500, 500, 100, 100, 900, 200, 300>>,
      <<100, 250, 100, 250, 100, 250, 100>>,
      <<100, 301, 100, 301, 100, 301, 100>>,
      <<100, 400, 100, 400, 100, 400, 100>>,
      <<100, 550, 100, 550, 100, 550, 100>> }
MockInputs == ExampleWeeks \cup UNION { [1..7 -> F] : F \in MockFamilies }
TodayDays == {2, 6}

\* Placeholder held by stats until calculateStats has run (weekStage tells).
EmptyStats == calculateStats(generateWeekData([j \in 1..7 |-> 0], 0))

WeekInit ==
    /\ weekStage = "none"
    /\ weekData = << >>
    /\ stats = EmptyStats
    /\ parts = << >>
    /\ insight = ""

\* useMemo(() => generateWeekData(), [])
GenerateWeekData ==
    /\ weekStage = "none"
    /\ \E mock \in MockInputs, today \in TodayDays :
           weekData' = generateWeekData(mock, today)
    /\ weekStage' = "data"
    /\ UNCHANGED <<stats, parts, insight>>
    /\ UNCHANGED gaugeVars
    /\ UNCHANGED <<payVars, fetchVars>>

\* useMemo(() => calculateStats(weekData), [weekData])
CalculateStats ==
    /\ weekStage = "data"
    /\ stats' = calculateStats(weekData)
    /\ weekStage' = "stats"
    /\ UNCHANGED <<weekData, parts, insight>>
    /\ UNCHANGED gaugeVars
    /\ UNCHANGED <<payVars, fetchVars>>

\* useMemo(() => generateInsight(stats), [stats])
GenerateInsight ==
    /\ weekStage = "stats"
    /\ parts' = insightParts(stats)
    /\ insight' = generateInsight(stats)
    /\ weekStage' = "insight"
    /\ UNCHANGED <<weekData, stats>>
    /\ UNCHANGED gaugeVars
    /\ UNCHANGED <<payVars, fetchVars>>

-----------------------------------------------------------------------------
(* The data screens: StatusScreen (index.tsx), TrendsScreen (trends.tsx)   *)
(* and ForecastScreen.  Each keeps one data object, fetches on mount and   *)
(* on pull-to-refresh, and calls setData once per fetch.  The fields are   *)
(* kept in one record, the fields a screen does not have staying at their  *)
(* defaults; a field that may be null is a sequence, empty for null.  What *)
(* a response carries is told apart by the number of the fetch that asked  *)
(* for it; lastUpdated is that number.                                     *)

FetchScreens == {"status", "trends", "forecast"}

DEFAULT_STATE ==
    [ currentCFS   |-> 0,
      gageHeightFt |-> << >>,
      trend24hr    |-> << >>,
      dailyData    |-> << >>,
      weather      |-> << >>,
      lastUpdated  |-> 0,
      isLoading    |-> TRUE,
      error        |-> "null" ]

\* The object passed to setData after a successful fetch; the 24-hour trend
\* is null when the optional history request was not OK.
fetchedData(scr, id, historyOk) ==
    [ currentCFS   |-> IF scr = "forecast" THEN 0 ELSE 100 * id,
      gageHeightFt |-> IF scr = "status" THEN <<id>> ELSE << >>,
      trend24hr    |-> IF scr # "forecast" /\ historyOk THEN <<id>> ELSE << >>,
      dailyData    |-> IF scr = "trends" THEN <<100 * id, 100 * id + 50>> ELSE << >>,
      weather      |-> IF scr = "forecast" THEN <<id>> ELSE << >>,
      lastUpdated  |-> id,
      isLoading    |-> FALSE,
      error        |-> "null" ]

onFetchError_reset(prev, message) ==
    [DEFAULT_STATE EXCEPT !.isLoading = FALSE, !.error = message]

\* The updater of the catch block: setData(prev => ({...prev, ...})).
onFetchError(prev, message) ==
    [prev EXCEPT !.isLoading = FALSE, !.error = message]

\* What a failed fetch throws: a network error of fetch() or the screen's
\* own error for a required response that is not OK.
FetchErrors(scr) ==
    { "Network request failed",
      IF scr = "forecast" THEN "Failed to fetch weather data"
                          ELSE "Failed to fetch USGS data" }

\* After mount: the fetch of the mount effect is in flight.
FetchInit ==
    /\ fetchScreen \in FetchScreens
    /\ fetchStarted = 1
    /\ fetchPending = {1}
    /\ screenData = DEFAULT_STATE
    /\ refreshing = FALSE
    /\ writtenBy = 0

FetchIdle == FetchInit /\ fetchScreen = "status"

\* onRefresh up to its await.
OnRefresh ==
    /\ fetchStarted < MaxFetches
    /\ fetchStarted' = fetchStarted + 1
    /\ fetchPending' = fetchPending \cup {fetchStarted + 1}
    /\ refreshing' = TRUE
    /\ UNCHANGED <<fetchScreen, screenData, writtenBy>>
    /\ UNCHANGED <<gaugeVars, weekVars, payVars>>

\* A fetch got its responses and parsed them; a refresh then ends.
FetchSucceeds ==
    /\ \E id \in fetchPending, historyOk \in BOOLEAN :
           /\ fetchPending' = fetchPending \ {id}
           /\ screenData' = fetchedData(fetchScreen, id, historyOk)
           /\ writtenBy' = id
           /\ refreshing' = IF id > 1 THEN FALSE ELSE refreshing
    /\ UNCHANGED <<fetchScreen, fetchStarted>>
    /\ UNCHANGED <<gaugeVars, weekVars, payVars>>

\* A fetch threw; a refresh then ends.
FetchFails ==
    /\ \E id \in fetchPending, message \in FetchErrors(fetchScreen) :
           /\ fetchPending' = fetchPending \ {id}
           /\ screenData' = onFetchError(screenData, message)
           /\ writtenBy' = id
           /\ refreshing' = IF id > 1 THEN FALSE ELSE refreshing
    /\ UNCHANGED <<fetchScreen, fetchStarted>>
    /\ UNCHANGED <<gaugeVars, weekVars, payVars>>

-----------------------------------------------------------------------------
(* Subscription state, the hard paywall and the root layout.               *)
(*                                                                         *)
(* SubscriptionProvider (contexts/SubscriptionContext), HardPaywall        *)
(* (components/HardPaywall.tsx, the revision with the reviewer escape      *)
(* hatch), AppContent (app/_layout.tsx) and the useProFeature hook.  A     *)
(* CustomerInfo is kept as what the program derives from it: whether the   *)
(* Pro entitlement is active and whether some active entitlement is a      *)
(* sandbox one.  RevenueCat's answers are inputs.  State updates made in   *)
(* one callback are one step, followed by the re-render of AppContent.     *)

NullInfo == [present |-> FALSE, pro |-> FALSE, sandbox |-> FALSE]

CustomerInfos == { [present |-> TRUE, pro |-> p, sandbox |-> sb] : p, sb \in BOOLEAN }

Packages == {"monthly", "yearly", "lifetime"}

\* The offerings RevenueCat may return: none, or monthly and annual.
Offerings == { {}, {"monthly", "yearly"} }

\* SubscriptionContext: isPro and isSandbox, derived from customerInfo.
isProOf(info) == info.present /\ info.pro

isSandboxOf(info) == info.present /\ info.sandbox

isPro == isProOf(customerInfo)

isSandbox == isSandboxOf(customerInfo)

\* HardPaywall: showCloseButton.
showCloseButton == DEV \/ isSandbox \/ showReviewerEscape

shouldShowPaywall_onlyInit(initialized, pro, dismissed) == ~initialized

\* AppContent: shouldShowPaywall.
shouldShowPaywall(initialized, pro, dismissed) ==
    ~initialized \/ (~pro /\ ~dismissed)

\* AppContent re-rendered with the new state: the paywall or the tabs.
AppContentRender ==
    screen' = IF shouldShowPaywall(isInitialized', isProOf(customerInfo'), paywallDismissed')
              THEN "paywall" ELSE "tabs"

\* The state of HardPaywall after the step: what the handler set while the
\* paywall stays mounted, the useState initial values once it is unmounted
\* (a later mount starts from them; timers of an unmounted paywall set
\* nothing).
PaywallState(sel, proc, taps, esc, timers) ==
    /\ selectedPackage' = IF screen' = "tabs" THEN "yearly" ELSE sel
    /\ isProcessing' = IF screen' = "tabs" THEN FALSE ELSE proc
    /\ logoTapCount' = IF screen' = "tabs" THEN 0 ELSE taps
    /\ showReviewerEscape' = IF screen' = "tabs" THEN FALSE ELSE esc
    /\ resetTimers' = IF screen' = "tabs" THEN 0 ELSE timers

\* The state of SettingsScreen after the step: the screen lives in the tabs,
\* so its state is the useState initial values once the paywall replaces them.
SettingsState(alert, paywall) ==
    /\ primeAlertEnabled' = IF screen' = "paywall" THEN FALSE ELSE alert
    /\ settingsShowPaywall' = IF screen' = "paywall" THEN FALSE ELSE paywall

SettingsStateKept == SettingsState(primeAlertEnabled, settingsShowPaywall)

escapeAfterTap_fourTaps(newCount, escape) ==
    IF newCount >= 4 /\ ~escape THEN TRUE ELSE escape

\* handleLogoTap: showReviewerEscape after a tap that made the count newCount.
escapeAfterTap(newCount, escape) ==
    IF newCount >= 5 /\ ~escape THEN TRUE ELSE escape

purchaseReturns_always(info) == "true"

\* purchase(): the boolean returned once the info is stored.
purchaseReturns(info) == IF isProOf(info) THEN "true" ELSE "false"

PaywallStateKept ==
    PaywallState(selectedPackage, isProcessing, logoTapCount, showReviewerEscape,
                 resetTimers)

\* The purchase screen of the paywall is on screen (not its loading screen).
PaywallOptionsShown == screen = "paywall" /\ isInitialized

PayInit ==
    /\ DEV \in BOOLEAN
    /\ customerInfo = NullInfo
    /\ currentOffering = {}
    /\ isInitialized = FALSE
    /\ isLoading = TRUE
    /\ error = "null"
    /\ initPending = TRUE
    /\ pendingOp = "none"
    /\ sandboxSeen = FALSE
    /\ selectedPackage = "yearly"
    /\ isProcessing = FALSE
    /\ logoTapCount = 0
    /\ showReviewerEscape = FALSE
    /\ resetTimers = 0
    /\ paywallDismissed = FALSE
    /\ screen = "paywall"
    /\ showPaywall = FALSE
    /\ alertOpen = FALSE
    /\ guardReturn = "none"
    /\ actionExecuted = FALSE
    /\ refreshPending = 0
    /\ purchaseReturn = "none"
    /\ primeAlertEnabled = FALSE
    /\ settingsShowPaywall = FALSE

SetCustomerInfo(info) ==
    /\ customerInfo' = info
    /\ sandboxSeen' = (sandboxSeen \/ isSandboxOf(info))

\* initialize(): the SDK, customer info and offerings all arrived.
InitializeSucceeds ==
    /\ initPending
    /\ \E info \in CustomerInfos, offering \in Offerings :
           /\ SetCustomerInfo(info)
           /\ currentOffering' = offering
    /\ isInitialized' = TRUE
    /\ isLoading' = FALSE
    /\ initPending' = FALSE
    /\ UNCHANGED <<DEV, refreshPending, purchaseReturn, error, pendingOp, paywallDismissed>>
    /\ AppContentRender
    /\ PaywallStateKept
    /\ SettingsStateKept
    /\ UNCHANGED <<gaugeVars, weekVars, fetchVars, hookVars>>

\* initialize(): one of the awaited calls threw.
InitializeFails ==
    /\ initPending
    /\ error' = "Failed to initialize subscriptions"
    /\ isLoading' = FALSE
    /\ initPending' = FALSE
    /\ UNCHANGED <<DEV, refreshPending, purchaseReturn, customerInfo, currentOffering, isInitialized, pendingOp,
                   sandboxSeen, paywallDismissed>>
    /\ AppContentRender
    /\ PaywallStateKept
    /\ SettingsStateKept
    /\ UNCHANGED <<gaugeVars, weekVars, fetchVars, hookVars>>

\* The customer info update listener.
CustomerInfoUpdated ==
    /\ \E info \in CustomerInfos :
           /\ info # customerInfo
           /\ SetCustomerInfo(info)
    /\ UNCHANGED <<DEV, refreshPending, purchaseReturn, currentOffering, isInitialized, isLoading, error, initPending,
                   pendingOp, paywallDismissed>>
    /\ AppContentRender
    /\ PaywallStateKept
    /\ SettingsStateKept
    /\ UNCHANGED <<gaugeVars, weekVars, fetchVars, hookVars>>

\* A package card pressed.
SelectPackage ==
    /\ PaywallOptionsShown
    /\ UNCHANGED <<subVars, paywallDismissed>>
    /\ AppContentRender
    /\ \E p \in Packages \ {selectedPackage} :
           PaywallState(p, isProcessing, logoTapCount, showReviewerEscape, resetTimers)
    /\ SettingsStateKept
    /\ UNCHANGED <<gaugeVars, weekVars, fetchVars, hookVars>>

\* handleLogoTap.
HandleLogoTap ==
    /\ PaywallOptionsShown
    /\ resetTimers < MaxTapTimers
    /\ UNCHANGED <<subVars, paywallDismissed>>
    /\ AppContentRender
    /\ LET newCount == logoTapCount + 1
       IN  PaywallState(selectedPackage, isProcessing, newCount,
                        escapeAfterTap(newCount, showReviewerEscape),
                        resetTimers + 1)
    /\ SettingsStateKept
    /\ UNCHANGED <<gaugeVars, weekVars, fetchVars, hookVars>>

\* The timer callback of a logo tap, two seconds after it.
LogoTapReset ==
    /\ screen = "paywall"
    /\ resetTimers > 0
    /\ UNCHANGED <<subVars, paywallDismissed>>
    /\ AppContentRender
    /\ PaywallState(selectedPackage, isProcessing, 0, showReviewerEscape,
                    resetTimers - 1)
    /\ SettingsStateKept
    /\ UNCHANGED <<gaugeVars, weekVars, fetchVars, hookVars>>

\* handlePurchase up to its await, with purchase() up to its await; the
\* button is disabled while processing, loading or without any package, and
\* the handler returns after an alert when the selected package is missing.
\* One purchase or restore call is followed at a time.
HandlePurchase ==
    /\ PaywallOptionsShown
    /\ ~isProcessing /\ ~isLoading /\ currentOffering # {}
    /\ pendingOp = "none"
    /\ selectedPackage \in currentOffering
    /\ isLoading' = TRUE
    /\ error' = "null"
    /\ pendingOp' = "purchase"
    /\ UNCHANGED <<DEV, refreshPending, purchaseReturn, customerInfo, currentOffering, isInitialized, initPending,
                   sandboxSeen, paywallDismissed>>
    /\ AppContentRender
    /\ PaywallState(selectedPackage, TRUE, logoTapCount, showReviewerEscape, resetTimers)
    /\ SettingsStateKept
    /\ UNCHANGED <<gaugeVars, weekVars, fetchVars, hookVars>>

\* purchasePackage resolved: purchase() stores the info, handlePurchase ends.
PurchaseResolves ==
    /\ pendingOp = "purchase"
    /\ \E info \in CustomerInfos : SetCustomerInfo(info)
    /\ isLoading' = FALSE
    /\ purchaseReturn' = purchaseReturns(customerInfo')
    /\ pendingOp' = "none"
    /\ UNCHANGED <<DEV, refreshPending, currentOffering, isInitialized, error, initPending,
                   paywallDismissed>>
    /\ AppContentRender
    /\ PaywallState(selectedPackage, FALSE, logoTapCount, showReviewerEscape, resetTimers)
    /\ SettingsStateKept
    /\ UNCHANGED <<gaugeVars, weekVars, fetchVars, hookVars>>

\* purchasePackage threw PURCHASE_CANCELLED.
PurchaseCancelled ==
    /\ pendingOp = "purchase"
    /\ isLoading' = FALSE
    /\ purchaseReturn' = "false"
    /\ pendingOp' = "none"
    /\ UNCHANGED <<DEV, refreshPending, customerInfo, currentOffering, isInitialized, error,
                   initPending, sandboxSeen, paywallDismissed>>
    /\ AppContentRender
    /\ PaywallState(selectedPackage, FALSE, logoTapCount, showReviewerEscape, resetTimers)
    /\ SettingsStateKept
    /\ UNCHANGED <<gaugeVars, weekVars, fetchVars, hookVars>>

\* purchasePackage threw anything else.
PurchaseFails ==
    /\ pendingOp = "purchase"
    /\ error' = "Purchase failed"
    /\ isLoading' = FALSE
    /\ purchaseReturn' = "false"
    /\ pendingOp' = "none"
    /\ UNCHANGED <<DEV, refreshPending, customerInfo, currentOffering, isInitialized, initPending,
                   sandboxSeen, paywallDismissed>>
    /\ AppContentRender
    /\ PaywallState(selectedPackage, FALSE, logoTapCount, showReviewerEscape, resetTimers)
    /\ SettingsStateKept
    /\ UNCHANGED <<gaugeVars, weekVars, fetchVars, hookVars>>

\* handleRestore up to its await, with restore() up to its await.
HandleRestore ==
    /\ PaywallOptionsShown
    /\ ~isProcessing /\ ~isLoading
    /\ pendingOp = "none"
    /\ isLoading' = TRUE
    /\ error' = "null"
    /\ pendingOp' = "restore"
    /\ UNCHANGED <<DEV, refreshPending, purchaseReturn, customerInfo, currentOffering, isInitialized, initPending,
                   sandboxSeen, paywallDismissed>>
    /\ AppContentRender
    /\ PaywallState(selectedPackage, TRUE, logoTapCount, showReviewerEscape, resetTimers)
    /\ SettingsStateKept
    /\ UNCHANGED <<gaugeVars, weekVars, fetchVars, hookVars>>

\* restorePurchases resolved.
RestoreResolves ==
    /\ pendingOp = "restore"
    /\ \E info \in CustomerInfos : SetCustomerInfo(info)
    /\ isLoading' = FALSE
    /\ pendingOp' = "none"
    /\ UNCHANGED <<DEV, refreshPending, purchaseReturn, currentOffering, isInitialized, error, initPending,
                   paywallDismissed>>
    /\ AppContentRender
    /\ PaywallState(selectedPackage, FALSE, logoTapCount, showReviewerEscape, resetTimers)
    /\ SettingsStateKept
    /\ UNCHANGED <<gaugeVars, weekVars, fetchVars, hookVars>>

\* restorePurchases threw.
RestoreFails ==
    /\ pendingOp = "restore"
    /\ error' = "Failed to restore purchases"
    /\ isLoading' = FALSE
    /\ pendingOp' = "none"
    /\ UNCHANGED <<DEV, refreshPending, purchaseReturn, customerInfo, currentOffering, isInitialized, initPending,
                   sandboxSeen, paywallDismissed>>
    /\ AppContentRender
    /\ PaywallState(selectedPackage, FALSE, logoTapCount, showReviewerEscape, resetTimers)
    /\ SettingsStateKept
    /\ UNCHANGED <<gaugeVars, weekVars, fetchVars, hookVars>>

\* The close button pressed: handleDismiss, then handlePaywallDismiss of
\* AppContent through onDismiss.  The button is rendered only when
\* showCloseButton holds.
HandleDismiss ==
    /\ PaywallOptionsShown
    /\ showCloseButton
    /\ paywallDismissed' = TRUE
    /\ UNCHANGED subVars
    /\ AppContentRender
    /\ PaywallStateKept
    /\ SettingsStateKept
    /\ UNCHANGED <<gaugeVars, weekVars, fetchVars, hookVars>>

\* useProFeature: guardAction(action), called while no alert covers the
\* screen.
GuardAction ==
    /\ ~alertOpen
    /\ IF isPro
       THEN /\ actionExecuted' = TRUE
            /\ guardReturn' = "true"
            /\ UNCHANGED alertOpen
       ELSE /\ actionExecuted' = FALSE
            /\ alertOpen' = TRUE
            /\ guardReturn' = "false"
    /\ UNCHANGED showPaywall
    /\ UNCHANGED <<gaugeVars, weekVars, fetchVars, subVars, paywallVars, layoutVars, settingsVars>>

\* useProFeature: guardActionAsync(action); the awaited action may reject,
\* and then the call returns no value.
GuardActionAsync ==
    /\ ~alertOpen
    /\ IF isPro
       THEN /\ actionExecuted' = TRUE
            /\ \E resolved \in BOOLEAN :
                   guardReturn' = IF resolved THEN "true" ELSE "rejected"
            /\ UNCHANGED alertOpen
       ELSE /\ actionExecuted' = FALSE
            /\ alertOpen' = TRUE
            /\ guardReturn' = "false"
    /\ UNCHANGED showPaywall
    /\ UNCHANGED <<gaugeVars, weekVars, fetchVars, subVars, paywallVars, layoutVars, settingsVars>>

\* The alert's 'Upgrade' button: openPaywall.
AlertUpgrade ==
    /\ alertOpen
    /\ alertOpen' = FALSE
    /\ showPaywall' = TRUE
    /\ UNCHANGED <<guardReturn, actionExecuted>>
    /\ UNCHANGED <<gaugeVars, weekVars, fetchVars, subVars, paywallVars, layoutVars, settingsVars>>

\* The alert's 'Maybe Later' button.
AlertMaybeLater ==
    /\ alertOpen
    /\ alertOpen' = FALSE
    /\ UNCHANGED <<showPaywall, guardReturn, actionExecuted>>
    /\ UNCHANGED <<gaugeVars, weekVars, fetchVars, subVars, paywallVars, layoutVars, settingsVars>>

\* closePaywall, and handleSuccess (which also closes the paywall).
ClosePaywall ==
    /\ showPaywall
    /\ showPaywall' = FALSE
    /\ UNCHANGED <<alertOpen, guardReturn, actionExecuted>>
    /\ UNCHANGED <<gaugeVars, weekVars, fetchVars, subVars, paywallVars, layoutVars, settingsVars>>

\* refreshCustomerInfo up to its await.
RefreshCustomerInfo ==
    /\ refreshPending < MaxRefreshCalls
    /\ refreshPending' = refreshPending + 1
    /\ isLoading' = TRUE
    /\ UNCHANGED <<DEV, purchaseReturn, customerInfo, currentOffering, isInitialized,
                   error, initPending, pendingOp, sandboxSeen, paywallDismissed>>
    /\ AppContentRender
    /\ PaywallStateKept
    /\ SettingsStateKept
    /\ UNCHANGED <<gaugeVars, weekVars, fetchVars, hookVars>>

\* refreshCustomerInfo: getCustomerInfo resolved.
RefreshResolves ==
    /\ refreshPending > 0
    /\ \E info \in CustomerInfos : SetCustomerInfo(info)
    /\ refreshPending' = refreshPending - 1
    /\ isLoading' = FALSE
    /\ UNCHANGED <<DEV, purchaseReturn, currentOffering, isInitialized, error,
                   initPending, pendingOp, paywallDismissed>>
    /\ AppContentRender
    /\ PaywallStateKept
    /\ SettingsStateKept
    /\ UNCHANGED <<gaugeVars, weekVars, fetchVars, hookVars>>

\* refreshCustomerInfo: getCustomerInfo threw.
RefreshFails ==
    /\ refreshPending > 0
    /\ refreshPending' = refreshPending - 1
    /\ error' = "Failed to refresh subscription info"
    /\ isLoading' = FALSE
    /\ UNCHANGED <<DEV, purchaseReturn, customerInfo, currentOffering, isInitialized,
                   initPending, pendingOp, sandboxSeen, paywallDismissed>>
    /\ AppContentRender
    /\ PaywallStateKept
    /\ SettingsStateKept
    /\ UNCHANGED <<gaugeVars, weekVars, fetchVars, hookVars>>

\* SettingsScreen: the Prime Zone Alerts switch moved, handlePrimeAlertToggle
\* called with the new position.
HandlePrimeAlertToggle ==
    /\ screen = "tabs"
    /\ ~settingsShowPaywall
    /\ LET value == ~primeAlertEnabled
       IN  IF value /\ ~isPro
           THEN /\ settingsShowPaywall' = TRUE
                /\ UNCHANGED primeAlertEnabled
           ELSE /\ primeAlertEnabled' = value
                /\ UNCHANGED settingsShowPaywall
    /\ UNCHANGED <<gaugeVars, weekVars, fetchVars, subVars, paywallVars, layoutVars, hookVars>>

\* SettingsScreen: onClose of its paywall modal.
CloseSettingsPaywall ==
    /\ screen = "tabs"
    /\ settingsShowPaywall
    /\ settingsShowPaywall' = FALSE
    /\ UNCHANGED primeAlertEnabled
    /\ UNCHANGED <<gaugeVars, weekVars, fetchVars, subVars, paywallVars, layoutVars, hookVars>>

\* The subscription context, the hard paywall, the root layout and the
\* settings screen, without the useProFeature hook.
NextSub ==
    \/ InitializeSucceeds
    \/ InitializeFails
    \/ CustomerInfoUpdated
    \/ RefreshCustomerInfo
    \/ RefreshResolves
    \/ RefreshFails
    \/ SelectPackage
    \/ HandleLogoTap
    \/ LogoTapReset
    \/ HandlePurchase
    \/ PurchaseResolves
    \/ PurchaseCancelled
    \/ PurchaseFails
    \/ HandleRestore
    \/ RestoreResolves
    \/ RestoreFails
    \/ HandleDismiss
    \/ HandlePrimeAlertToggle
    \/ CloseSettingsPaywall

InitPay == GaugeInit /\ gaugeStyle = "sweep270" /\ WeekInit /\ PayInit /\ FetchIdle

NextPay ==
    \/ InitializeSucceeds
    \/ InitializeFails
    \/ CustomerInfoUpdated
    \/ SelectPackage
    \/ HandleLogoTap
    \/ LogoTapReset
    \/ HandlePurchase
    \/ PurchaseResolves
    \/ PurchaseCancelled
    \/ PurchaseFails
    \/ HandleRestore
    \/ RestoreResolves
    \/ RestoreFails
    \/ HandleDismiss
    \/ GuardAction
    \/ GuardActionAsync
    \/ AlertUpgrade
    \/ AlertMaybeLater
    \/ ClosePaywall

SpecPay == InitPay /\ [][NextPay]_vars

SpecSub == InitPay /\ [][NextSub]_vars

\* Every call awaiting RevenueCat settles: the SDK answers or throws.  What
\* the user does, and when customer info updates arrive, is left open.
SubFairness ==
    /\ WF_vars(InitializeSucceeds \/ InitializeFails)
    /\ WF_vars(RefreshResolves \/ RefreshFails)
    /\ WF_vars(PurchaseResolves \/ PurchaseCancelled \/ PurchaseFails)
    /\ WF_vars(RestoreResolves \/ RestoreFails)

SpecSubFair == SpecSub /\ SubFairness

InitFetch ==
    /\ GaugeInit /\ gaugeStyle = "sweep270"
    /\ WeekInit
    /\ PayInit /\ DEV = FALSE
    /\ FetchInit

NextFetch ==
    \/ OnRefresh
    \/ FetchSucceeds
    \/ FetchFails

SpecFetch == InitFetch /\ [][NextFetch]_vars

-----------------------------------------------------------------------------
(* Specifications.                                                         *)

Init == GaugeInit /\ WeekInit /\ PayInit /\ FetchIdle /\ DEV = FALSE

Next ==
    \/ \E c \in Readings : FlowGaugeRender(c)
    \/ \E c \in Readings : SemiGaugeRender(c)
    \/ \E c \in Readings : PaywallGaugeRender(c)
    \/ \E c \in Readings : PrdGaugeRender(c)

Spec == Init /\ [][Next]_vars

\* The weekly screen, with the 270-degree gauge left at its first render.
InitWeek == GaugeInit /\ gaugeStyle = "sweep270" /\ WeekInit /\ PayInit /\ FetchIdle /\ DEV = FALSE

NextWeek ==
    \/ GenerateWeekData
    \/ CalculateStats
    \/ GenerateInsight

SpecWeek == InitWeek /\ [][NextWeek]_vars

\* calculateStats and generateInsight applied to data arrays of any length
\* from 1 to MaxDays (generateWeekData itself always returns seven entries).
LengthSamples == {300, 500}

DayDataOf(cs) ==
    [ j \in 1..Len(cs) |->
        [ dayName |-> dayNames[((j - 1) % 7) + 1],
          cfs     |-> cs[j],
          zone    |-> getZone(cs[j]) ] ]

AnyLengthData ==
    { DayDataOf(cs) : cs \in UNION { [1..n -> LengthSamples] : n \in 1..MaxDays } }

InitStats ==
    /\ GaugeInit /\ gaugeStyle = "sweep270"
    /\ weekStage = "data"
    /\ weekData \in AnyLengthData
    /\ stats = EmptyStats
    /\ parts = << >>
    /\ insight = ""
    /\ PayInit /\ DEV = FALSE
    /\ FetchIdle

NextStats ==
    \/ CalculateStats
    \/ GenerateInsight

SpecStats == InitStats /\ [][NextStats]_vars

-----------------------------------------------------------------------------
(* Properties of the classifier and of the gauge, checked under Spec.      *)

WithStatus == {"sweep270", "semi180", "prd180"}
WithArcs == {"sweep270", "semi180", "paywall180"}

\* The sweep of each gauge style: the angle shown for 0 CFS and for MAX_CFS.
SweepStart(s) == IF s = "sweep270" THEN Deg(-135) ELSE IF s = "semi180" THEN Deg(180) ELSE Deg(0)
SweepEnd(s) == IF s = "sweep270" THEN Deg(135) ELSE IF s = "semi180" THEN Deg(0) ELSE Deg(180)

\* The needle projection of each gauge style.
Projection(s, cfs) ==
    CASE s = "sweep270" -> cfsToAngle(cfs)
      [] s = "semi180" -> getNeedlePosition(cfs)
      [] s = "paywall180" -> valueToDegrees(cfs)
      [] OTHER -> calculateNeedleAngle(cfs)

\* C1: for every cfs >= 0 the status shown is LOW on [0,350), PRIME on
\* [350,750), CAUTION on [750,1200) and BLOWN OUT from 1200 up, also at and
\* above the 2000 ceiling; 350, 750 and 1200 fall in the higher band.
C1_ZoneBands ==
    (currentCFS >= 0 /\ gaugeStyle \in WithStatus) =>
        status = IF currentCFS < 350 THEN "LOW"
                 ELSE IF currentCFS < 750 THEN "PRIME"
                 ELSE IF currentCFS < 1200 THEN "CAUTION"
                 ELSE "BLOWN OUT"

C1_Witness ==
    /\ gaugeStyle = "sweep270"
    /\ prevCFS = 749
    /\ currentCFS = 750
    /\ status = "CAUTION"

C4_NegativeIsLow ==
    (currentCFS < 0 /\ gaugeStyle \in WithStatus) => status = "LOW"

\* C5: on the 270-degree and the paywall gauges the needle angle is linear
\* and non-decreasing in cfs: equal steps of cfs inside [0, MAX_CFS] give
\* equal steps of angle, a larger reading never gives a smaller angle,
\* 0 maps to the sweep start and MAX_CFS to the sweep end.
C5_LinearMonotone ==
    gaugeStyle \in {"sweep270", "paywall180"} =>
        /\ prevCFS <= currentCFS => prevNeedle <= needle
        /\ currentCFS <= prevCFS => needle <= prevNeedle
        /\ ({prevCFS, currentCFS} \subseteq 0..MAX_CFS) =>
               (needle - prevNeedle) * MAX_CFS =
                   (currentCFS - prevCFS) * (SweepEnd(gaugeStyle) - SweepStart(gaugeStyle))
        /\ currentCFS = 0 => needle = SweepStart(gaugeStyle)
        /\ currentCFS = MAX_CFS => needle = SweepEnd(gaugeStyle)

C5_Witness ==
    /\ gaugeStyle = "sweep270"
    /\ prevCFS = 0 /\ prevNeedle = Deg(-135)
    /\ currentCFS = MAX_CFS /\ needle = Deg(135)

\* C6: the projection clamps: the needle of any cfs is the needle of cfs
\* clamped to [0, MAX_CFS]; above the ceiling it is the needle of MAX_CFS,
\* below zero the needle of 0, and it never leaves the sweep.
C6_Clamps ==
    gaugeStyle \in WithArcs =>
        /\ needle = Projection(gaugeStyle, Min(Max(currentCFS, 0), MAX_CFS))
        /\ currentCFS > MAX_CFS => needle = SweepEnd(gaugeStyle)
        /\ currentCFS < 0 => needle = SweepStart(gaugeStyle)
        /\ needle >= Min(SweepStart(gaugeStyle), SweepEnd(gaugeStyle))
        /\ needle <= Max(SweepStart(gaugeStyle), SweepEnd(gaugeStyle))

C6_Witness ==
    /\ gaugeStyle = "sweep270"
    /\ currentCFS > MAX_CFS
    /\ prevCFS < 0
    /\ needle = Deg(135)
    /\ prevNeedle = Deg(-135)

\* C7: each zone's arc runs from the needle projection of the zone's min to
\* that of its max; consecutive arcs meet at one angle, the first starts at
\* the sweep start, the last ends at the sweep end, and every arc advances
\* in the direction of the sweep (no gap, no overlap).
C7_ArcsTileSweep ==
    gaugeStyle \in WithArcs =>
        /\ Len(zoneArcs) = Len(ZONES)
        /\ \A i \in 1..Len(ZONES) :
               /\ zoneArcs[i].startAngle = Projection(gaugeStyle, ZONES[i].min)
               /\ zoneArcs[i].endAngle = Projection(gaugeStyle, ZONES[i].max)
               /\ IF SweepStart(gaugeStyle) < SweepEnd(gaugeStyle)
                  THEN zoneArcs[i].startAngle < zoneArcs[i].endAngle
                  ELSE zoneArcs[i].startAngle > zoneArcs[i].endAngle
        /\ \A i \in 1..(Len(ZONES) - 1) :
               zoneArcs[i].endAngle = zoneArcs[i + 1].startAngle
        /\ zoneArcs[1].startAngle = SweepStart(gaugeStyle)
        /\ zoneArcs[Len(ZONES)].endAngle = SweepEnd(gaugeStyle)

C7_Witness ==
    /\ gaugeStyle = "sweep270"
    /\ currentCFS = 500
    /\ Len(zoneArcs) = 4
    /\ zoneArcs[2] = [startAngle |-> cfsToAngle(350), endAngle |-> cfsToAngle(750)]
    /\ needle > zoneArcs[2].startAngle /\ needle < zoneArcs[2].endAngle

-----------------------------------------------------------------------------
(* Properties of the weekly aggregator, checked under SpecWeek.            *)

StatsDone == weekStage \in {"stats", "insight"}

\* The gauge's label for a zone key of the weekly screen.
ZoneLabel(z) ==
    CASE z = "low" -> "LOW"
      [] z = "prime" -> "PRIME"
      [] z = "caution" -> "CAUTION"
      [] OTHER -> "BLOWN OUT"

\* Sums of the first and of the last three readings: firstHalfAvg and
\* secondHalfAvg are these divided by 3.
FirstHalfSum == SumSeq(SliceFirst3([ i \in 1..Len(weekData) |-> weekData[i].cfs ]))
SecondHalfSum == SumSeq(SliceLast3([ i \in 1..Len(weekData) |-> weekData[i].cfs ]))

\* C3 as stated: every daily reading gets from getZone the zone the gauge's
\* getStatus gives it, and the trends screen's days-in-prime filter counts
\* exactly the readings the gauge calls PRIME.
C3_SameClassifierAsGauge ==
    weekStage # "none" =>
        /\ \A i \in 1..Len(weekData) :
               ZoneLabel(weekData[i].zone) = getStatus(weekData[i].cfs)
        /\ trendsDaysInPrime(weekData) =
               Cardinality({ i \in 1..Len(weekData) : getStatus(weekData[i].cfs) = "PRIME" })

\* C8 as stated: the per-zone day counters add up to the number of readings.
C8_DayCountersSumToTotal ==
    StatsDone =>
        stats.daysInLow + stats.daysInPrime + stats.daysInCaution = Len(weekData)

\* C9 as stated: with firstHalfAvg > 0, weekTrend is rising exactly when
\* percentDiff > 10, falling exactly when percentDiff < -10, else stable,
\* percentDiff being (secondHalfAvg - firstHalfAvg) / firstHalfAvg * 100.
C9_TrendOnPercentDiff ==
    (StatsDone /\ FirstHalfSum > 0) =>
        stats.weekTrend =
            IF (SecondHalfSum - FirstHalfSum) * 100 > 10 * FirstHalfSum THEN "rising"
            ELSE IF (SecondHalfSum - FirstHalfSum) * 100 < (0 - 10) * FirstHalfSum THEN "falling"
            ELSE "stable"

\* C10 as stated: with firstHalfAvg > 0, weekTrendPercent is the absolute
\* value of percentDiff rounded to the nearest integer.
C10_PercentIsRoundOfAbs ==
    (StatsDone /\ FirstHalfSum > 0) =>
        stats.weekTrendPercent =
            Finite(MathRound(
                (IF SecondHalfSum >= FirstHalfSum
                 THEN SecondHalfSum - FirstHalfSum
                 ELSE FirstHalfSum - SecondHalfSum) * 100,
                FirstHalfSum))

\* The cfs values of the week, and their extremes.
WeekCfs == [ i \in 1..Len(weekData) |-> weekData[i].cfs ]
WeekMax == CHOOSE v \in { WeekCfs[i] : i \in 1..Len(weekData) } :
               \A i \in 1..Len(weekData) : WeekCfs[i] <= v
WeekMin == CHOOSE v \in { WeekCfs[i] : i \in 1..Len(weekData) } :
               \A i \in 1..Len(weekData) : WeekCfs[i] >= v
FirstIndexOf(v) == CHOOSE i \in 1..Len(weekData) :
                       WeekCfs[i] = v /\ \A j \in 1..(i - 1) : WeekCfs[j] # v

\* C11 as stated: when the first three readings average 0 the aggregator
\* returns weekTrend 'stable' and weekTrendPercent 0, never NaN or Infinity.
C11_ZeroFirstHalfIsStable ==
    (StatsDone /\ FirstHalfSum = 0) =>
        /\ stats.weekTrend = "stable"
        /\ stats.weekTrendPercent = Finite(0)

\* C12: peakFlow and lowestFlow are the largest and smallest reading,
\* peakDay and lowestDay name the first reading (lowest index) attaining
\* them, and flowRange is their difference, never negative; for
\* [500,500,100,100,900,200,300] the peak is 900 on the fifth day and the
\* lowest is 100 on the third day, not the fourth.
C12_ExtremesFirstOccurrence ==
    StatsDone =>
        /\ stats.peakFlow = WeekMax
        /\ stats.lowestFlow = WeekMin
        /\ stats.peakDay = weekData[FirstIndexOf(WeekMax)].dayName
        /\ stats.lowestDay = weekData[FirstIndexOf(WeekMin)].dayName
        /\ stats.flowRange = WeekMax - WeekMin
        /\ stats.flowRange >= 0
        /\ WeekCfs = <<500, 500, 100, 100, 900, 200, 300>> =>
               /\ stats.peakFlow = 900 /\ stats.peakDay = weekData[5].dayName
               /\ stats.lowestFlow = 100 /\ stats.lowestDay = weekData[3].dayName
               /\ stats.lowestDay # weekData[4].dayName

C12_Witness ==
    /\ StatsDone
    /\ WeekCfs = <<500, 500, 100, 100, 900, 200, 300>>
    /\ stats.peakDay = weekData[5].dayName
    /\ stats.lowestDay = weekData[3].dayName

\* C13: avgFlow is the integer nearest to the mean of the seven readings
\* (sum/7 - avgFlow lies in [-1/2, 1/2)); for the shipped sample it is 543.
C13_AvgIsRoundedMean ==
    (StatsDone /\ Len(weekData) = 7) =>
        /\ 2 * (SumSeq(WeekCfs) - 7 * stats.avgFlow) >= 0 - 7
        /\ 2 * (SumSeq(WeekCfs) - 7 * stats.avgFlow) < 7
        /\ WeekCfs = <<420, 385, 520, 745, 680, 542, 510>> => stats.avgFlow = 543

C13_Witness ==
    /\ StatsDone
    /\ WeekCfs = <<420, 385, 520, 745, 680, 542, 510>>
    /\ stats.avgFlow = 543

\* C14 as stated: primePercentage is round(daysInPrime / totalDays * 100)
\* with totalDays the number of readings passed in, and lies in 0..100.
C14_PrimePercentageOfTotalDays ==
    StatsDone =>
        /\ stats.primePercentage = MathRound(stats.daysInPrime * 100, Len(weekData))
        /\ stats.primePercentage \in 0..100

\* C15: volatility is 'stable' for flowRange <= 200, 'moderate' for
\* 200 < flowRange <= 400 and 'volatile' for flowRange > 400.
C15_VolatilityBuckets ==
    StatsDone =>
        /\ WeekMax - WeekMin <= 200 => stats.volatility = "stable"
        /\ (WeekMax - WeekMin > 200 /\ WeekMax - WeekMin <= 400) => stats.volatility = "moderate"
        /\ WeekMax - WeekMin > 400 => stats.volatility = "volatile"
        /\ WeekMax - WeekMin \in {150, 200} => stats.volatility = "stable"
        /\ WeekMax - WeekMin \in {300, 400} => stats.volatility = "moderate"
        /\ WeekMax - WeekMin = 450 => stats.volatility = "volatile"

C15_Witness ==
    /\ StatsDone
    /\ WeekMax - WeekMin = 400
    /\ stats.flowRange = 400
    /\ stats.volatility = "moderate"

\* The prime-zone clause the claim names for 0..7 days in prime.
ExpectedPrimeClause ==
    << "Tough week-no days in the prime zone.",
       "Challenging week with only 1 day in prime.",
       "Challenging week with only 2 days in prime.",
       "Good week with 3 days in prime fishing conditions.",
       "Good week with 4 days in prime fishing conditions.",
       "Excellent week with 5 days in the prime zone.",
       "Excellent week with 6 days in the prime zone.",
       "Excellent week with 7 days in the prime zone." >>

\* C20: the insight is, in order, one prime-zone clause chosen by
\* daysInPrime, a trend clause exactly when weekTrend is rising or falling,
\* and the peak clause naming peakFlow and peakDay: 2 or 3 clauses, joined
\* by single spaces.
C20_InsightClauses ==
    weekStage = "insight" =>
        /\ Len(parts) \in {2, 3}
        /\ parts[1] = ExpectedPrimeClause[stats.daysInPrime + 1]
        /\ (Len(parts) = 3) <=> (stats.weekTrend \in {"rising", "falling"})
        /\ stats.weekTrend = "rising" =>
               parts[2] = "Flow rising " \o NumberText(stats.weekTrendPercent)
                              \o "% toward end of week."
        /\ stats.weekTrend = "falling" =>
               parts[2] = "Flow dropping " \o NumberText(stats.weekTrendPercent)
                              \o "% into the weekend."
        /\ parts[Len(parts)] = "Peak of " \o ToString(stats.peakFlow) \o " CFS on "
                                   \o stats.peakDay \o "."
        /\ insight = IF Len(parts) = 2
                     THEN parts[1] \o " " \o parts[2]
                     ELSE parts[1] \o " " \o parts[2] \o " " \o parts[3]

C20_Witness ==
    /\ weekStage = "insight"
    /\ stats.daysInPrime = 1
    /\ stats.weekTrend = "falling"
    /\ Len(parts) = 3
    /\ parts[1] = "Challenging week with only 1 day in prime."

\* C17 as stated: in a production build whose customer info never was a
\* sandbox one, whatever the user does on the paywall, the close button is
\* never shown and onDismiss is never invoked (paywallDismissed, which only
\* onDismiss sets, stays false).
C17_NoEscapeInProduction ==
    (~DEV /\ ~sandboxSeen) =>
        /\ ~(PaywallOptionsShown /\ showCloseButton)
        /\ ~paywallDismissed

C19_GuardShowsPaywallWhenNotPro ==
    [][ (GuardAction \/ GuardActionAsync) =>
            /\ IF isPro
               THEN actionExecuted' /\ guardReturn' \in {"true", "rejected"}
               ELSE ~actionExecuted' /\ showPaywall' /\ guardReturn' = "false"
            /\ guardReturn' = "true" => actionExecuted'
            /\ guardReturn' = "false" => ~actionExecuted' ]_vars

\* C21 as stated: in every reachable state of the Settings screen
\* primeAlertEnabled = true implies isPro = true.
C21_AlertOnlyForPro == primeAlertEnabled => isPro

C26_LoadingWhileInFlight ==
    (initPending \/ refreshPending > 0 \/ pendingOp # "none") => isLoading

\* The data fields of a screen state (everything but isLoading and error).
DataFields(d) ==
    <<d.currentCFS, d.gageHeightFt, d.trend24hr, d.dailyData, d.weather, d.lastUpdated>>

\* C24: a failed fetch leaves every data field as it was, makes isLoading
\* false and sets error to the failure message; a successful fetch replaces
\* the data by what it fetched and sets error to null.
C24_FailedFetchKeepsData ==
    [][ /\ FetchFails =>
               /\ DataFields(screenData') = DataFields(screenData)
               /\ ~screenData'.isLoading
               /\ screenData'.error \in FetchErrors(fetchScreen)
        /\ FetchSucceeds =>
               /\ screenData'.lastUpdated = writtenBy'
               /\ \E historyOk \in BOOLEAN :
                      DataFields(screenData') =
                          DataFields(fetchedData(fetchScreen, writtenBy', historyOk))
               /\ ~screenData'.isLoading
               /\ screenData'.error = "null" ]_vars

C24_Witness ==
    /\ screenData.error # "null"
    /\ ~screenData.isLoading
    /\ screenData.lastUpdated > 0
    /\ screenData.currentCFS = 100 * screenData.lastUpdated
    /\ writtenBy # screenData.lastUpdated

\* C25 as stated: once every fetch of the screen has settled, the screen
\* state is the one written by the fetch that was started last.
C25_LastStartedFetchWins ==
    fetchPending = {} => writtenBy = fetchStarted

\* C27 as stated: once initialize() has settled, with success or failure,
\* the paywall eventually leaves its loading screen: the purchase options
\* or the tabs are shown.
C27_LeavesLoadingScreen ==
    [](~initPending => <>(PaywallOptionsShown \/ screen = "tabs"))

====
